---- MODULE Spec2Model ----
(***************************************************************************)
(* A model of src/app.py: the product recommendation dashboard.           *)
(*                                                                         *)
(* main() runs the pipeline load_data -> preprocess_data ->               *)
(* get_frequent_itemsets -> get_association_rules -> recommend_product -> *)
(* recommend_offer.  The pandas and mlxtend calls the functions make are  *)
(* modelled by what those library calls compute (groupby/sum/unstack/     *)
(* fillna/applymap, apriori, association_rules), in the order in which    *)
(* they produce their rows.                                                *)
(*                                                                         *)
(* Numbers: a support, confidence, lift or threshold is an exact fraction *)
(* <<numerator, denominator>> with a positive denominator, compared by    *)
(* cross multiplication.  The code computes them in binary floating point; *)
(* for the counts within the bounds below the floating-point tests         *)
(* (>= 0.05, >= 0.5, >= 0.10, lift >= 1.0, lift >= 0.5) give the same      *)
(* answers as the exact ones.                                              *)
(***************************************************************************)
EXTENDS Integers, Sequences, FiniteSets, TLC

VARIABLES
    csv,                 \* transaction.csv: [exists, rows]
    pc,                  \* position of main()
    steps,               \* the pipeline functions called so far, in order
    errors,              \* the st.error messages shown so far
    df,                  \* the loaded frame: a sequence of records
    basket,              \* InvoiceNo -> (Product -> 0/1)
    min_support,         \* parameter of get_frequent_itemsets
    min_lift,            \* parameter of get_association_rules
    frequent_itemsets,   \* sequence of [support, itemsets]
    hashOrder,           \* iteration order of a set of str in this process
    rules,               \* sequence of rule rows
    input_product,       \* st.selectbox
    days_left,           \* st.number_input
    recommended_product, \* result of recommend_product
    offer                \* result of recommend_offer

vars == <<csv, pc, steps, errors, df, basket, min_support, min_lift,
          frequent_itemsets, hashOrder, rules, input_product, days_left,
          recommended_product, offer>>

-----------------------------------------------------------------------------
(* Bounds of the model *)

\* invoices of a small dataset
MaxTx == 4
\* records of a raw frame handed to the encoder alone
MaxRecords == 3
\* invoices of a bulk dataset that hold the associated pair
MaxBoth == 2
\* invoices of a bulk dataset that hold the unrelated product alone
MaxOther == 11

\* The catalogue, in the order unstack() sorts the columns.
Products == <<"Bread", "Butter", "Milk">>
ProductSet == {Products[i] : i \in 1..Len(Products)}
Idx(p) == CHOOSE i \in 1..Len(Products) : Products[i] = p

\* All orders in which a process may iterate a set of product names.
Perms == {s \in [1..Len(Products) -> ProductSet] :
            \A i, j \in 1..Len(Products) : i # j => s[i] # s[j]}

-----------------------------------------------------------------------------
(* Exact fractions *)

Geq(a, b) == a[1] * b[2] >= b[1] * a[2]
Gt(a, b) == a[1] * b[2] > b[1] * a[2]
Eq(a, b) == a[1] * b[2] = b[1] * a[2]

RECURSIVE Concat(_)
Concat(ss) == IF ss = <<>> THEN <<>> ELSE Head(ss) \o Concat(Tail(ss))

RangeOf(s) == {s[i] : i \in DOMAIN s}

-----------------------------------------------------------------------------
(* Step 2: preprocess_data *)

\* df.groupby(['InvoiceNo','Product'])['Quantity'].sum(): the running sum of
\* the records of one (InvoiceNo, Product) group, left to right.
RECURSIVE GroupSum(_, _, _)
GroupSum(frame, inv, prod) ==
    IF frame = <<>> THEN 0
    ELSE LET r == frame[Len(frame)]
             rest == GroupSum(SubSeq(frame, 1, Len(frame) - 1), inv, prod)
         IN IF r.InvoiceNo = inv /\ r.Product = prod
            THEN rest + r.Quantity ELSE rest

GroupKeys(frame) == {<<frame[k].InvoiceNo, frame[k].Product>> : k \in DOMAIN frame}

\* .unstack(): one row per InvoiceNo, one column per Product of the frame; a
\* cell with no group is NaN (<<>>), a cell with a group holds its sum (<<x>>).
Unstack(frame) ==
    LET invs == {frame[k].InvoiceNo : k \in DOMAIN frame}
        prods == {frame[k].Product : k \in DOMAIN frame}
    IN [i \in invs |-> [p \in prods |->
          IF <<i, p>> \in GroupKeys(frame) THEN <<GroupSum(frame, i, p)>> ELSE <<>>]]

\* .fillna(0)
FillNa(cell) == IF cell = <<>> THEN 0 ELSE cell[1]

BinarizeNonNegative(x) == IF x >= 0 THEN 1 ELSE 0

\* lambda x: 1 if x > 0 else 0
Binarize(x) == IF x > 0 THEN 1 ELSE 0

preprocess_data(frame) ==
    LET u == Unstack(frame)
    IN [i \in DOMAIN u |-> [p \in DOMAIN u[i] |-> Binarize(FillNa(u[i][p]))]]

\* basket.columns, in sorted order
Columns(b) ==
    LET cols == UNION {DOMAIN b[i] : i \in DOMAIN b}
    IN SelectSeq(Products, LAMBDA p : p \in cols)

\* len(basket)
NumRows(b) == Cardinality(DOMAIN b)

-----------------------------------------------------------------------------
(* Step 3: get_frequent_itemsets (mlxtend apriori, use_colnames=True) *)

\* number of rows of the basket in which every column of S is 1
SupportCount(b, S) == Cardinality({i \in DOMAIN b : \A p \in S : b[i][p] = 1})

\* _support(...): the column sum divided by the number of rows
SupportOf(b, S) == <<SupportCount(b, S), NumRows(b)>>

IsFrequentIfSeen(b, combo, ms) == SupportCount(b, RangeOf(combo)) >= 1

\* the mask support >= min_support
IsFrequent(b, combo, ms) == Geq(SupportOf(b, RangeOf(combo)), ms)

\* generate_new_combinations: every kept combination extended by every item,
\* of those still in a kept combination, that sorts after its last one
NewCombinations(old, cols) ==
    LET items == UNION {RangeOf(old[k]) : k \in DOMAIN old}
        ext(oc) == LET valid == SelectSeq(cols, LAMBDA p :
                                   p \in items /\ Idx(p) > Idx(oc[Len(oc)]))
                   IN [j \in 1..Len(valid) |-> Append(oc, valid[j])]
    IN Concat([k \in 1..Len(old) |-> ext(old[k])])

\* the while loop: level k+1 is counted from the kept combinations of level k
\* and the loop ends at the first level that keeps nothing
RECURSIVE AprioriLevels(_, _, _)
AprioriLevels(b, ms, cur) ==
    IF cur = <<>> THEN <<>>
    ELSE cur \o AprioriLevels(b, ms,
             SelectSeq(NewCombinations(cur, Columns(b)),
                       LAMBDA c : IsFrequent(b, c, ms)))

apriori(b, ms) ==
    LET cols == Columns(b)
        level1 == SelectSeq([k \in 1..Len(cols) |-> <<cols[k]>>],
                            LAMBDA c : IsFrequent(b, c, ms))
        all == AprioriLevels(b, ms, level1)
    IN [k \in 1..Len(all) |->
          [support |-> SupportOf(b, RangeOf(all[k])), itemsets |-> RangeOf(all[k])]]

get_frequent_itemsets(b, ms) == apriori(b, ms)

-----------------------------------------------------------------------------
(* Step 4: get_association_rules (mlxtend association_rules, metric="lift") *)

\* list(S) of a set of product names: its members in the process's hash order
ListOf(S, ord) == SelectSeq(ord, LAMBDA p : p \in S)

\* itertools.combinations(s, r), in its lexicographic order of positions
RECURSIVE Combinations(_, _)
Combinations(s, r) ==
    IF r = 0 THEN << <<>> >>
    ELSE IF Len(s) < r THEN <<>>
    ELSE LET with == Combinations(Tail(s), r - 1)
         IN [k \in 1..Len(with) |-> <<Head(s)>> \o with[k]]
            \o Combinations(Tail(s), r)

\* frequent_items_dict[S]
SupportLookup(fi, S) == fi[CHOOSE k \in DOMAIN fi : fi[k].itemsets = S].support

Div(a, b) == <<a[1] * b[2], a[2] * b[1]>>

\* confidence = sAC / sA
Confidence(sAC, sA, sC) == Div(sAC, sA)

LiftOfSupport(sAC, sA, sC) == Div(sAC, sC)

\* lift = confidence / sC
Lift(sAC, sA, sC) == Div(Confidence(sAC, sA, sC), sC)

\* the rules of one frequent itemset: antecedents of size len-1 down to 1,
\* each size in combinations() order, kept when lift >= min_threshold
RulesOf(fi, row, min_threshold, ord) ==
    LET items == ListOf(row.itemsets, ord)
        n == Len(items)
        ants == Concat([d \in 1..(n - 1) |-> Combinations(items, n - d)])
        mk(c) == LET A == RangeOf(c)
                     C == row.itemsets \ A
                     sAC == row.support
                     sA == SupportLookup(fi, A)
                     sC == SupportLookup(fi, C)
                 IN [antecedents |-> A, consequents |-> C,
                     antecedent_support |-> sA, consequent_support |-> sC,
                     support |-> sAC,
                     confidence |-> Confidence(sAC, sA, sC),
                     lift |-> Lift(sAC, sA, sC)]
    IN SelectSeq([k \in 1..Len(ants) |-> mk(ants[k])],
                 LAMBDA r : Geq(r.lift, min_threshold))

association_rules(fi, min_threshold, ord) ==
    Concat([k \in 1..Len(fi) |-> RulesOf(fi, fi[k], min_threshold, ord)])

get_association_rules(fi, ml, ord) == association_rules(fi, ml, ord)

-----------------------------------------------------------------------------
(* Step 5: recommend_product *)

NotFoundMessage == "Product not found in rules."
NoRecommendationsMessage == "No recommendations found."

\* filtered_rules: the rules whose antecedents hold the product, in stored order
RulesWith(product, rs) == SelectSeq(rs, LAMBDA r : product \in r.antecedents)

\* lambda x: list(x)[0]
FirstConsequent(r) == ListOf(r.consequents, hashOrder)[1]

recommend_product_last(product, rs) ==
    LET filtered == RulesWith(product, rs)
    IN IF filtered = <<>> THEN NotFoundMessage
       ELSE FirstConsequent(filtered[Len(filtered)])

recommend_product_unchecked(product, rs) ==
    LET filtered == RulesWith(product, rs)
    IN IF filtered = <<>> THEN NoRecommendationsMessage
       ELSE FirstConsequent(filtered[1])

recommend_product(product, rs) ==
    IF product \notin UNION {rs[k].antecedents : k \in DOMAIN rs}
    THEN NotFoundMessage
    ELSE LET filtered == RulesWith(product, rs)
         IN IF filtered # <<>>
            THEN LET recommended_products ==
                         [k \in 1..Len(filtered) |-> FirstConsequent(filtered[k])]
                 IN IF recommended_products # <<>> THEN recommended_products[1]
                    ELSE NoRecommendationsMessage
            ELSE NoRecommendationsMessage

-----------------------------------------------------------------------------
(* Step 6: recommend_offer *)

ExpiresSoonDays == 7
LimitedTimeDays == 30
MaxDaysLeft == 365

TenPercentOff == "Buy {product} and get {recommended_product} at 10% off! "
SpecialOffer == "Get a special offer on {recommended_product} when you buy {product}! "
ExpiresSoon == "Hurry, this offer expires soon!"
LimitedTime == "Limited time offer! Hurry before it's gone!"
NoRush == "Enjoy this offer with no rush."

\* len(basket[(basket[product] == 1) & (basket[consequent] == 1)])
CoPurchaseCount(b, product, consequent) ==
    Cardinality({i \in DOMAIN b : b[i][product] = 1 /\ b[i][consequent] = 1})

UrgencyTextStrict(d) ==
    IF d < ExpiresSoonDays THEN ExpiresSoon
    ELSE IF d < LimitedTimeDays THEN LimitedTime
    ELSE NoRush

\* the if / elif / else on days_left
UrgencyText(d) ==
    IF d <= ExpiresSoonDays THEN ExpiresSoon
    ELSE IF d <= LimitedTimeDays THEN LimitedTime
    ELSE NoRush

DealTextStrict(percentage, threshold) ==
    IF Gt(percentage, threshold) THEN TenPercentOff ELSE SpecialOffer

\* the if / else on percentage >= threshold
DealText(percentage, threshold) ==
    IF Geq(percentage, threshold) THEN TenPercentOff ELSE SpecialOffer

recommend_offer_by_consequent(product, d, rs, b, threshold) ==
    LET product_rules == SelectSeq(rs, LAMBDA r : product \in r.consequents)
        keys == {FirstConsequent(product_rules[k]) : k \in DOMAIN product_rules}
    IN [c \in keys |->
          [deal |-> DealText(<<CoPurchaseCount(b, product, c), NumRows(b)>>, threshold),
           product |-> product, recommended_product |-> c,
           urgency |-> UrgencyText(d)]]

\* offer_message: recommended product -> offer text, the text kept as its
\* two sentences and the two names the first one is formatted with
recommend_offer(product, d, rs, b, threshold) ==
    LET total_transactions == NumRows(b)
        product_rules == RulesWith(product, rs)
        keys == {FirstConsequent(product_rules[k]) : k \in DOMAIN product_rules}
        product_percentages ==
            [c \in keys |-> <<CoPurchaseCount(b, product, c), total_transactions>>]
    IN [c \in keys |->
          [deal |-> DealText(product_percentages[c], threshold),
           product |-> product, recommended_product |-> c,
           urgency |-> UrgencyText(d)]]

-----------------------------------------------------------------------------
(* The inputs *)

\* defaults of the signatures: min_support=0.05, min_lift=1.0, threshold=0.10
DefaultMinSupport == <<5, 100>>
DefaultMinLift == <<1, 1>>
DefaultThreshold == <<10, 100>>

\* thresholds a caller of the miner and the rule generator may pass
MinSupportChoices == {DefaultMinSupport, <<1, 2>>}
MinLiftChoices == {DefaultMinLift, <<1, 2>>}

\* values of st.number_input(min_value=0, max_value=365): the ends and both
\* sides of each test of recommend_offer
DaysLeftValues == {0, ExpiresSoonDays, ExpiresSoonDays + 1,
                   LimitedTimeDays, LimitedTimeDays + 1, MaxDaysLeft}

RECURSIVE Mask(_)
Mask(S) == IF S = {} THEN 0
           ELSE LET p == CHOOSE q \in S : TRUE
                IN 2 ^ (Idx(p) - 1) + Mask(S \ {p})

\* the invoices of a dataset as the sets of products bought, one dataset per
\* multiset of invoices (the pipeline never reads the order of the rows)
Invoices(n) == {t \in [1..n -> SUBSET ProductSet] :
                  \A i \in 1..(n - 1) : Mask(t[i]) <= Mask(t[i + 1])}

\* the records of a dataset: one line of quantity 1 per product bought, and
\* for an invoice that bought nothing one line of quantity 0
RecordsOf(t) ==
    Concat([i \in 1..Len(t) |->
        IF t[i] = {}
        THEN <<[InvoiceNo |-> i, Product |-> Products[1], Quantity |-> 0]>>
        ELSE LET bought == SelectSeq(Products, LAMBDA p : p \in t[i])
             IN [k \in 1..Len(bought) |->
                   [InvoiceNo |-> i, Product |-> bought[k], Quantity |-> 1]]])

SmallDatasets(max) == {RecordsOf(t) : t \in UNION {Invoices(n) : n \in 1..max}}

\* a pair bought together on nb invoices among no invoices of a third product
BulkInvoices(nb, no) ==
    [i \in 1..(nb + no) |->
        IF i <= nb THEN {Products[1], Products[2]} ELSE {Products[3]}]

BulkDatasets == {RecordsOf(BulkInvoices(nb, no)) : nb \in 1..MaxBoth, no \in 0..MaxOther}

\* raw frames with repeated, zero and negative quantities
RawRecords == [InvoiceNo : 1..2, Product : {Products[1], Products[2]},
               Quantity : {-1, 0, 1}]
RawFrames == UNION {[1..n -> RawRecords] : n \in 1..MaxRecords}

NoFrame == <<>>
NoBasket == <<>>
NoInput == ""

-----------------------------------------------------------------------------
(* Step 1 and Step 7: load_data and main *)

FileNotFoundError == "Dataset file not found. Please upload 'transaction.csv'."
NoRulesError == "No association rules generated. Try reducing the minimum support or lift."

Unset ==
    /\ steps = <<>>
    /\ errors = <<>>
    /\ frequent_itemsets = <<>>
    /\ hashOrder = <<>>
    /\ rules = <<>>
    /\ input_product = NoInput
    /\ days_left = 0
    /\ recommended_product = NoInput
    /\ offer = <<>>

\* a run of the dashboard on some transaction.csv, or on none
Init ==
    /\ csv \in {[exists |-> FALSE, rows |-> NoFrame]}
          \cup {[exists |-> TRUE, rows |-> d] :
                  d \in SmallDatasets(MaxTx) \cup BulkDatasets}
    /\ pc = "start"
    /\ df = NoFrame
    /\ basket = NoBasket
    /\ min_support = DefaultMinSupport
    /\ min_lift = DefaultMinLift
    /\ Unset

\* the encoder alone, on a raw frame
InitEncoder ==
    /\ df \in RawFrames
    /\ csv = [exists |-> TRUE, rows |-> df]
    /\ pc = "loaded"
    /\ basket = NoBasket
    /\ min_support = DefaultMinSupport
    /\ min_lift = DefaultMinLift
    /\ Unset

\* the miner and the rule generator alone, on a basket and two thresholds
InitMiner ==
    /\ df \in SmallDatasets(MaxTx)
    /\ csv = [exists |-> TRUE, rows |-> df]
    /\ pc = "encoded"
    /\ basket = preprocess_data(df)
    /\ min_support \in MinSupportChoices
    /\ min_lift \in MinLiftChoices
    /\ Unset

LoadDataAnyway ==
    /\ pc = "start"
    /\ df' = csv.rows
    /\ pc' = "loaded"
    /\ steps' = Append(steps, "load_data")
    /\ UNCHANGED <<csv, errors, basket, min_support, min_lift, frequent_itemsets,
                   hashOrder, rules, input_product, days_left,
                   recommended_product, offer>>

\* df = load_data(); if df is None: st.stop()
LoadData ==
    /\ pc = "start"
    /\ IF csv.exists
       THEN /\ df' = csv.rows
            /\ pc' = "loaded"
            /\ UNCHANGED errors
       ELSE /\ df' = NoFrame
            /\ errors' = Append(errors, FileNotFoundError)
            /\ pc' = "stopped"
    /\ steps' = Append(steps, "load_data")
    /\ UNCHANGED <<csv, basket, min_support, min_lift, frequent_itemsets,
                   hashOrder, rules, input_product, days_left,
                   recommended_product, offer>>

\* basket = preprocess_data(df)
Preprocess ==
    /\ pc = "loaded"
    /\ basket' = preprocess_data(df)
    /\ pc' = "encoded"
    /\ steps' = Append(steps, "preprocess_data")
    /\ UNCHANGED <<csv, errors, df, min_support, min_lift, frequent_itemsets,
                   hashOrder, rules, input_product, days_left,
                   recommended_product, offer>>

\* frequent_itemsets = get_frequent_itemsets(basket)
GetFrequentItemsets ==
    /\ pc = "encoded"
    /\ frequent_itemsets' = get_frequent_itemsets(basket, min_support)
    /\ pc' = "mined"
    /\ steps' = Append(steps, "get_frequent_itemsets")
    /\ UNCHANGED <<csv, errors, df, basket, min_support, min_lift,
                   hashOrder, rules, input_product, days_left,
                   recommended_product, offer>>

\* rules = get_association_rules(frequent_itemsets); association_rules raises
\* ValueError on an empty frame of itemsets, and otherwise walks each itemset
\* in the order the process iterates it
GetAssociationRules ==
    /\ pc = "mined"
    /\ \/ /\ frequent_itemsets = <<>>
          /\ pc' = "crashed"
          /\ UNCHANGED <<hashOrder, rules>>
       \/ /\ frequent_itemsets # <<>>
          /\ \E ord \in Perms :
                /\ hashOrder' = ord
                /\ rules' = get_association_rules(frequent_itemsets, min_lift, ord)
          /\ pc' = "ruled"
    /\ steps' = Append(steps, "get_association_rules")
    /\ UNCHANGED <<csv, errors, df, basket, min_support, min_lift,
                   frequent_itemsets, input_product, days_left,
                   recommended_product, offer>>

\* if rules.empty: st.error(...); st.stop()
CheckRules ==
    /\ pc = "ruled"
    /\ IF rules = <<>>
       THEN /\ errors' = Append(errors, NoRulesError)
            /\ pc' = "stopped"
       ELSE /\ pc' = "ready"
            /\ UNCHANGED errors
    /\ UNCHANGED <<csv, steps, df, basket, min_support, min_lift,
                   frequent_itemsets, hashOrder, rules, input_product,
                   days_left, recommended_product, offer>>

\* input_product = st.selectbox(..., basket.columns); days_left = st.number_input(...)
SelectInputs ==
    /\ pc = "ready"
    /\ \E p \in RangeOf(Columns(basket)), d \in DaysLeftValues :
          /\ input_product' = p
          /\ days_left' = d
    /\ pc' = "selected"
    /\ UNCHANGED <<csv, steps, errors, df, basket, min_support, min_lift,
                   frequent_itemsets, hashOrder, rules,
                   recommended_product, offer>>

\* if input_product and days_left is not None:
\*     recommended_product = recommend_product(input_product, rules)
RecommendProduct ==
    /\ pc = "selected"
    /\ input_product # NoInput
    /\ recommended_product' = recommend_product(input_product, rules)
    /\ pc' = "recommended"
    /\ steps' = Append(steps, "recommend_product")
    /\ UNCHANGED <<csv, errors, df, basket, min_support, min_lift,
                   frequent_itemsets, hashOrder, rules, input_product,
                   days_left, offer>>

\* offer = recommend_offer(input_product, days_left, rules, basket)
RecommendOffer ==
    /\ pc = "recommended"
    /\ offer' = recommend_offer(input_product, days_left, rules, basket,
                                DefaultThreshold)
    /\ pc' = "offered"
    /\ steps' = Append(steps, "recommend_offer")
    /\ UNCHANGED <<csv, errors, df, basket, min_support, min_lift,
                   frequent_itemsets, hashOrder, rules, input_product,
                   days_left, recommended_product>>

Next ==
    \/ LoadData
    \/ Preprocess
    \/ GetFrequentItemsets
    \/ GetAssociationRules
    \/ CheckRules
    \/ SelectInputs
    \/ RecommendProduct
    \/ RecommendOffer

Spec == Init /\ [][Next]_vars

NextEncoder == Preprocess

SpecEncoder == InitEncoder /\ [][NextEncoder]_vars

NextMiner == GetFrequentItemsets \/ GetAssociationRules

SpecMiner == InitMiner /\ [][NextMiner]_vars

-----------------------------------------------------------------------------
(* Vocabulary of the properties *)

Recommended == pc \in {"recommended", "offered"}

\* positions of the stored rules whose antecedent holds the query product
Matching == {k \in DOMAIN rules : input_product \in rules[k].antecedents}

\* position of a product in the process's iteration order
HashPos(p) == CHOOSE i \in DOMAIN hashOrder : hashOrder[i] = p

\* the products some invoice of the basket holds
RowItems(i) == {p \in DOMAIN basket[i] : basket[i][p] = 1}

InvoiceNos == {df[k].InvoiceNo : k \in DOMAIN df}

-----------------------------------------------------------------------------
(* C1 *)

\* C1 as stated: the recommended product is a consequent of a rule of maximal
\* lift among the rules whose antecedent holds the query product.
C1_RecommendsMaxLift ==
    (Recommended /\ Matching # {}) =>
        \E k \in Matching :
            /\ \A j \in Matching : Geq(rules[k].lift, rules[j].lift)
            /\ recommended_product \in rules[k].consequents

\* C1 as amended: the recommended product is the first listed item of the
\* consequent of the first stored rule whose antecedent holds the query
\* product; no ranking is applied.
C1_RecommendsFirstStored ==
    (Recommended /\ Matching # {}) =>
        \E k \in Matching :
            /\ \A j \in Matching : k <= j
            /\ recommended_product \in rules[k].consequents
            /\ \A q \in rules[k].consequents :
                  HashPos(recommended_product) <= HashPos(q)

\* the first stored rule is beaten on lift by a later one, and its consequent
\* is no consequent of a rule of maximal lift
C1_Witness ==
    /\ Recommended
    /\ \E k, j \in Matching :
          /\ k < j
          /\ \A i \in Matching : k <= i
          /\ Gt(rules[j].lift, rules[k].lift)
    /\ ~C1_RecommendsMaxLift

-----------------------------------------------------------------------------
(* C2 *)

\* the empty result a caller would test for
EmptyResult == ""

\* C2 as stated: with no rule whose antecedent holds the query product, the
\* recommendation is an empty result and no distinguished failure value.
C2_ReturnsEmpty ==
    (Recommended /\ Matching = {}) =>
        /\ recommended_product = EmptyResult
        /\ recommended_product \notin {NotFoundMessage, NoRecommendationsMessage}

\* C2 as amended: with no rule whose antecedent holds the query product,
\* recommend_product returns the message "Product not found in rules." in
\* place of a product, recommend_offer returns an empty map, and the run does
\* not fail.
C2_ReturnsNotFoundMessage ==
    (Recommended /\ Matching = {}) =>
        /\ recommended_product = NotFoundMessage
        /\ recommended_product \notin ProductSet
        /\ pc = "offered" => DOMAIN offer = {}
        /\ errors = <<>>

\* an offer was computed for a product that no antecedent holds, from rules
\* that do exist
C2_Witness ==
    /\ pc = "offered"
    /\ Matching = {}
    /\ rules # <<>>
    /\ input_product \in ProductSet

-----------------------------------------------------------------------------
(* C3 *)

RECURSIVE QuantityOver(_)
QuantityOver(K) ==
    IF K = {} THEN 0
    ELSE LET k == CHOOSE j \in K : TRUE
         IN df[k].Quantity + QuantityOver(K \ {k})

\* the records of one item within one order
RecordsFor(inv, prod) ==
    {k \in DOMAIN df : df[k].InvoiceNo = inv /\ df[k].Product = prod}

\* C3: the basket has one row per order and one column per item of the
\* records; a cell is 1 exactly when the item's quantities within the order
\* sum to more than 0, and 0 otherwise (a zero or negative sum, or no record).
C3_PresentIffPositiveSum ==
    pc = "encoded" =>
        /\ DOMAIN basket = InvoiceNos
        /\ \A i \in InvoiceNos :
              /\ DOMAIN basket[i] = {df[k].Product : k \in DOMAIN df}
              /\ \A p \in DOMAIN basket[i] :
                    /\ basket[i][p] \in {0, 1}
                    /\ basket[i][p] = 1 <=> QuantityOver(RecordsFor(i, p)) > 0

\* an encoded basket with a cell whose records cancel out, a cell with no
\* record and a cell that is present
C3_Witness ==
    /\ pc = "encoded"
    /\ \E i \in InvoiceNos : \E p \in DOMAIN basket[i] :
          /\ \E k \in RecordsFor(i, p) : df[k].Quantity > 0
          /\ QuantityOver(RecordsFor(i, p)) <= 0
          /\ basket[i][p] = 0
    /\ \E i \in InvoiceNos : \E p \in DOMAIN basket[i] :
          RecordsFor(i, p) = {} /\ basket[i][p] = 0
    /\ \E i \in InvoiceNos : \E p \in DOMAIN basket[i] : basket[i][p] = 1

-----------------------------------------------------------------------------
(* C4 *)

\* the number of orders holding every item of S, and the number of orders
CountOf(S) == Cardinality({i \in DOMAIN basket : S \subseteq RowItems(i)})
Orders == Cardinality(DOMAIN basket)

Mined == pc \in {"mined", "ruled", "crashed"}

\* C4: no returned itemset has a support ratio below min_support, and no
\* returned rule has a lift below the minimum threshold.
C4_ThresholdsRespected ==
    /\ Mined =>
          \A k \in DOMAIN frequent_itemsets :
              /\ CountOf(frequent_itemsets[k].itemsets) * min_support[2]
                    >= min_support[1] * Orders
              /\ frequent_itemsets[k].support
                    = <<CountOf(frequent_itemsets[k].itemsets), Orders>>
    /\ pc = "ruled" =>
          \A k \in DOMAIN rules :
              LET A == rules[k].antecedents
                  C == rules[k].consequents
              IN /\ CountOf(A \cup C) * Orders * min_lift[2]
                       >= min_lift[1] * CountOf(A) * CountOf(C)
                 /\ Geq(rules[k].lift, min_lift)
                 /\ Eq(rules[k].lift, <<CountOf(A \cup C) * Orders, CountOf(A) * CountOf(C)>>)

\* rules were generated while an itemset that occurs was left out for its
\* support and a pair of kept itemsets was left out for its lift
C4_Witness ==
    /\ pc = "ruled"
    /\ rules # <<>>
    /\ \E S \in SUBSET ProductSet :
          /\ S # {}
          /\ CountOf(S) > 0
          /\ \A k \in DOMAIN frequent_itemsets : frequent_itemsets[k].itemsets # S
    /\ \E k \in DOMAIN frequent_itemsets :
          \E A \in SUBSET frequent_itemsets[k].itemsets :
              /\ A # {}
              /\ A # frequent_itemsets[k].itemsets
              /\ \A j \in DOMAIN rules : rules[j].antecedents # A
                    \/ rules[j].consequents # frequent_itemsets[k].itemsets \ A

-----------------------------------------------------------------------------
(* C5 *)

\* the basket T1{Milk,Bread}, T2{Milk,Bread,Butter}, T3{Milk}, T4{Bread,Butter}
ExampleOrders == {{"Milk", "Bread"}, {"Milk", "Bread", "Butter"}, {"Milk"},
                  {"Bread", "Butter"}}

IsExample ==
    /\ Orders = Cardinality(ExampleOrders)
    /\ \A T \in ExampleOrders : \E i \in DOMAIN basket : RowItems(i) = T
    /\ min_support = <<1, 2>>

ItemsetsFound == {frequent_itemsets[k].itemsets : k \in DOMAIN frequent_itemsets}

SupportFound(S) == SupportLookup(frequent_itemsets, S)

MilkToBread == {k \in DOMAIN rules : /\ rules[k].antecedents = {"Milk"}
                                      /\ rules[k].consequents = {"Bread"}}

\* a fraction shown to three decimals
Rounds(a, thousandths) ==
    /\ 2 * 1000 * a[1] >= (2 * thousandths - 1) * a[2]
    /\ 2 * 1000 * a[1] < (2 * thousandths + 1) * a[2]

MilkToBreadMetrics ==
    \A k \in MilkToBread :
        /\ Eq(rules[k].support, <<1, 2>>)
        /\ Eq(rules[k].confidence, <<2, 3>>) /\ Rounds(rules[k].confidence, 667)
        /\ Eq(rules[k].lift, <<8, 9>>) /\ Rounds(rules[k].lift, 889)

\* C5 as stated: on the example basket with minimum support 0.5 the frequent
\* itemsets are exactly {Milk} (0.75), {Bread} (0.75) and {Milk,Bread} (0.5),
\* and Milk -> Bread has support 0.5, confidence 0.667 and lift 0.889.
C5_ThreeItemsets ==
    (IsExample /\ pc \in {"mined", "ruled"}) =>
        /\ ItemsetsFound = {{"Milk"}, {"Bread"}, {"Milk", "Bread"}}
        /\ Eq(SupportFound({"Milk"}), <<3, 4>>)
        /\ Eq(SupportFound({"Bread"}), <<3, 4>>)
        /\ Eq(SupportFound({"Milk", "Bread"}), <<1, 2>>)
        /\ pc = "ruled" => MilkToBreadMetrics

\* C5 as amended: the frequent itemsets are {Milk} (0.75), {Bread} (0.75),
\* {Butter} (0.5), {Milk,Bread} (0.5) and {Bread,Butter} (0.5); Milk -> Bread
\* has support 0.5, confidence 0.667 and lift 0.889, and is returned exactly
\* when the minimum lift is at most 8/9.
C5_FiveItemsets ==
    (IsExample /\ pc \in {"mined", "ruled"}) =>
        /\ ItemsetsFound = {{"Milk"}, {"Bread"}, {"Butter"}, {"Milk", "Bread"},
                            {"Bread", "Butter"}}
        /\ Len(frequent_itemsets) = Cardinality(ItemsetsFound)
        /\ Eq(SupportFound({"Milk"}), <<3, 4>>)
        /\ Eq(SupportFound({"Bread"}), <<3, 4>>)
        /\ Eq(SupportFound({"Butter"}), <<1, 2>>)
        /\ Eq(SupportFound({"Milk", "Bread"}), <<1, 2>>)
        /\ Eq(SupportFound({"Bread", "Butter"}), <<1, 2>>)
        /\ pc = "ruled" =>
              /\ MilkToBreadMetrics
              /\ Cardinality(MilkToBread) = (IF Geq(<<8, 9>>, min_lift) THEN 1 ELSE 0)

\* the example basket mined and turned into rules that hold Milk -> Bread
C5_Witness ==
    /\ IsExample
    /\ pc = "ruled"
    /\ MilkToBread # {}

-----------------------------------------------------------------------------
(* C7 *)

\* the discount percentage an offer text states; 0 when it states none
DiscountOf(message) == IF message.deal = TenPercentOff THEN 10 ELSE 0

\* the offer main would get for the same product, rules and basket with
\* another number of days left
OfferAt(d) == recommend_offer(input_product, d, rules, basket, DefaultThreshold)

\* C7 as stated: with the same product and co-purchase ratio, an offer with
\* days_left within the short horizon carries a higher discount than one with
\* many days left.
C7_UrgencyRaisesDiscount ==
    (pc = "offered" /\ days_left <= ExpiresSoonDays) =>
        \A c \in DOMAIN offer : DiscountOf(offer[c]) > DiscountOf(OfferAt(MaxDaysLeft)[c])

\* C7 as amended: days_left selects only the closing sentence of the offer
\* ("expires soon" up to 7 days, "limited time" up to 30, "no rush" beyond);
\* the discount is the same whatever the number of days left.
C7_UrgencyChangesTextOnly ==
    pc = "offered" =>
        \A c \in DOMAIN offer :
            /\ days_left \in 0..7 => offer[c].urgency = ExpiresSoon
            /\ days_left \in 8..30 => offer[c].urgency = LimitedTime
            /\ days_left \in 31..365 => offer[c].urgency = NoRush
            /\ \A d \in DaysLeftValues :
                  /\ c \in DOMAIN OfferAt(d)
                  /\ DiscountOf(OfferAt(d)[c]) = DiscountOf(offer[c])
                  /\ OfferAt(d)[c].deal = offer[c].deal

\* an offer made on the last day of the short horizon
C7_Witness ==
    /\ pc = "offered"
    /\ days_left = ExpiresSoonDays
    /\ DOMAIN offer # {}

-----------------------------------------------------------------------------
(* C8 *)

\* orders holding both the anchor and the recommended product
BothCount(c) == Cardinality({i \in DOMAIN basket : {input_product, c} \subseteq RowItems(i)})

\* C8 as stated: the offer carries 10% when the co-purchase ratio is above
\* the threshold and a baseline discount otherwise, so every offer states a
\* discount percentage.
C8_EveryOfferStatesDiscount ==
    pc = "offered" =>
        \A c \in DOMAIN offer :
            /\ DiscountOf(offer[c]) > 0
            /\ offer[c].deal = TenPercentOff
                  <=> BothCount(c) * 100 > 10 * Cardinality(InvoiceNos)

\* C8 as amended: the co-purchase ratio is the number of orders holding both
\* products over the number of orders; the offer states 10% off when the
\* ratio is at least 0.10 and otherwise is a "special offer" that states no
\* discount percentage.
C8_TenPercentIffRatioAtLeastThreshold ==
    pc = "offered" =>
        \A c \in DOMAIN offer :
            /\ offer[c].deal = TenPercentOff
                  <=> BothCount(c) * 100 >= 10 * Cardinality(InvoiceNos)
            /\ offer[c].deal # TenPercentOff =>
                  offer[c].deal = SpecialOffer /\ DiscountOf(offer[c]) = 0
            /\ offer[c].product = input_product
            /\ offer[c].recommended_product = c

\* an offer for a pair bought together on fewer than a tenth of the orders
C8_Witness ==
    /\ pc = "offered"
    /\ \E c \in DOMAIN offer :
          /\ offer[c].deal = SpecialOffer
          /\ BothCount(c) > 0
          /\ BothCount(c) * 100 < 10 * Cardinality(InvoiceNos)

-----------------------------------------------------------------------------
(* C9 *)

Messages == {NotFoundMessage, NoRecommendationsMessage}

\* C9: a recommended product is a key of the offer map computed for the same
\* product, rules and basket, and is never the query product; the outcome
\* "No recommendations found." does not occur.
C9_RecommendedIsOffered ==
    /\ \A k \in DOMAIN rules : rules[k].antecedents \cap rules[k].consequents = {}
    /\ Recommended => recommended_product # NoRecommendationsMessage
    /\ (Recommended /\ recommended_product \notin Messages) =>
          /\ recommended_product \in ProductSet
          /\ recommended_product # input_product
    /\ (pc = "offered" /\ recommended_product \notin Messages) =>
          recommended_product \in DOMAIN offer

\* a product was recommended and offered among several offers
C9_Witness ==
    /\ pc = "offered"
    /\ recommended_product \in ProductSet
    /\ Cardinality(DOMAIN offer) >= 2

-----------------------------------------------------------------------------
(* C10 *)

Pipeline == <<"load_data", "preprocess_data", "get_frequent_itemsets",
              "get_association_rules", "recommend_product", "recommend_offer">>

IsPrefix(s, t) == Len(s) <= Len(t) /\ s = SubSeq(t, 1, Len(s))

\* C10: the steps of a run occur in the order load, encode, mine, generate
\* rules, recommend, offer; a recommendation or an offer is computed only
\* with the dataset loaded and a non-empty rule set, hence over at least one
\* order; a run whose file is missing or whose rule set is empty shows its
\* error and stops with no recommendation and no offer.
C10_PipelineOrder ==
    /\ IsPrefix(steps, Pipeline)
    /\ Recommended =>
          /\ csv.exists
          /\ df = csv.rows
          /\ rules # <<>>
          /\ NumRows(basket) > 0
          /\ Cardinality(InvoiceNos) > 0
          /\ errors = <<>>
    /\ pc = "offered" <=> steps = Pipeline
    /\ (~csv.exists /\ pc # "start") =>
          pc = "stopped" /\ errors = <<FileNotFoundError>> /\ steps = <<"load_data">>
    /\ (rules = <<>> /\ pc \notin {"start", "loaded", "encoded", "mined", "ruled"}) =>
          pc \in {"stopped", "crashed"}
    /\ pc = "stopped" =>
          /\ Len(errors) = 1
          /\ csv.exists => errors = <<NoRulesError>> /\ rules = <<>>
    /\ pc \in {"stopped", "crashed"} =>
          /\ recommended_product = NoInput
          /\ offer = <<>>
          /\ \A k \in DOMAIN steps : steps[k] \notin {"recommend_product", "recommend_offer"}

\* a whole run, from the load to the offers
C10_Witness ==
    /\ pc = "offered"
    /\ steps = Pipeline
    /\ DOMAIN offer # {}

====
